---- MODULE Spec2Model ----
(***************************************************************************)
(* pack-it: a Table of type-erased column builders (table.rs, mem.rs), the *)
(* Writer with its background encoder thread behind a bounded channel      *)
(* (write.rs), and the Packer that composes them behind a flush policy     *)
(* (packer.rs).                                                            *)
(*                                                                         *)
(* A column holds a sequence of chunks.  A chunk [null, val, n] stands for *)
(* n consecutive cells that are all null or all the value val: it is what *)
(* n successive calls of the same push with the same argument append.     *)
(* A string is represented by its length in bytes, a bool by 0 or 1, a     *)
(* fixed-size binary value by a number naming its bytes.                   *)
(***************************************************************************)
EXTENDS Naturals, Sequences, FiniteSets

VARIABLES
    schema,      \* Table.schema: the Kind of every column          (table.rs:154)
    builders,    \* Table.builders: one VarArray per column         (table.rs:155)
    cap,         \* Table.cap: the capacity hint                    (table.rs:156)
    mem_used,    \* Table.mem_used: the running memory estimate     (table.rs:157)
    build,       \* "debug" or "release": whether debug_assert! is compiled in
    thread,      \* Writer.thread: "Some", "None", or "Detached" once the
                 \* Writer was dropped with the handle in it        (write.rs:41)
    tx,          \* the SyncSender: "open" or "dropped"             (write.rs:50)
    rx,          \* the Receiver owned by the encoder: "alive" or "dropped"
    chan,        \* the buffer of the sync_channel                  (write.rs:96)
    task,        \* the encoder thread: "running", "ok", "err", "panicked"
    received,    \* the batches the encoder thread took off the channel
    pc,          \* where the driver is: "idle", "send", "join", "done", "panicked"
    caller,      \* the Packer call a blocked driver is inside of
    pending,     \* the batch a blocked send holds
    lastop,      \* the last operation the driver completed or started
    result,      \* its outcome
    ret,         \* the value take_batch returned last
    submitted,   \* every batch passed to Writer::submit_batch, in order
    accepted,    \* the batches for which submit_batch returned Ok
    sent,        \* the batches for which SyncSender::send returned Ok
    outcome,     \* what the joined encoder thread returned ("none" before the join)
    flushed,     \* whether the last Packer call went into Packer::flush
    npush,       \* the push calls made so far
    in_schema,   \* the fields of the source file                   (repack.rs:76)
    ops,         \* Repack.ops                                      (repack.rs:52)
    row_groups,  \* metadata.row_groups: the rows of each row group (repack.rs:118)
    next_rg,     \* the index the enumerate() of the loop yields next
    opi,         \* the Op the inner loop is at                     (repack.rs:132)
    tpc,         \* where transform is: "none" (no transform), "schema",
                 \* "loop", "ops", "body", "break", "ret"
    filter_calls,\* the calls of rg_filter: index passed, decision returned
    ops_run      \* the Ops run: row group index, Op index

tableVars == <<schema, builders, cap, mem_used, build>>
writerVars == <<thread, tx, rx, chan, task, received>>
driverVars == <<pc, caller, pending, submitted, accepted, sent, outcome, flushed>>
transformVars == <<in_schema, ops, row_groups, next_rg, opi, tpc, filter_calls,
                   ops_run>>
vars == <<schema, builders, cap, mem_used, build, thread, tx, rx, chan, task,
          received, pc, caller, pending, lastop, result, ret, submitted,
          accepted, sent, outcome, flushed, npush, in_schema, ops, row_groups,
          next_rg, opi, tpc, filter_calls, ops_run>>

(***************************************************************************)
(* Bounds of the model and the constants of the program.                   *)
(***************************************************************************)
MaxPushes == 4          \* push calls (each of n cells) in one run
MaxBatches == 2         \* batches a Packer run hands to the Writer
MaxCols == 3            \* columns a get_many request ranges over
RowThreshold == 100000  \* packer.rs:32
ChanCap == 1            \* write.rs:96
NumSinks == 1           \* write.rs:95: Writer::new takes one sink
UuidSize == 16          \* table.rs:57
I32Max == 2147483647    \* the largest offset of a MutableUtf8Array<i32>
MemThreshold == 512 * 1024 * 1024   \* packer.rs:32

Kinds == {"Bool", "Uuid", "U8", "I32", "I64", "F64", "String", "TimestampSecsZ"}

RECURSIVE SumSeq(_)
SumSeq(s) == IF s = <<>> THEN 0 ELSE Head(s) + SumSeq(Tail(s))

Min(a, b) == IF a <= b THEN a ELSE b

IsPrefix(s, t) == Len(s) <= Len(t) /\ SubSeq(t, 1, Len(s)) = s

(***************************************************************************)
(* Kind::array_with_capacity: the concrete builder behind each Kind.       *)
(***************************************************************************)
BuilderType(kind) ==
    CASE kind = "Bool" -> "Boolean"
      [] kind = "U8" -> "u8"
      [] kind = "I32" -> "i32"
      [] kind = "I64" -> "i64"
      [] kind = "F64" -> "f64"
      [] kind = "String" -> "Utf8"
      [] kind = "Uuid" -> "FixedSizeBinary"
      [] kind = "TimestampSecsZ" -> "i64"

array_with_capacity(kind, capacity) ==
    [type |-> BuilderType(kind), capacity |-> capacity, data |-> <<>>]

\* std::mem::size_of::<T>() of the primitive types
SizeOf(t) ==
    CASE t = "u8" -> 1
      [] t = "i16" -> 2
      [] t = "i32" -> 4
      [] t = "i64" -> 8
      [] t = "f64" -> 8

Chunk(null, val, n) == [null |-> null, val |-> val, n |-> n]

\* MutableArray::len
ColLen(col) == SumSeq([k \in 1..Len(col.data) |-> col.data[k].n])

\* the validity bitmap exists once a null has been pushed
HasValidity(col) == \E k \in 1..Len(col.data) : col.data[k].null

\* the bytes of the values buffer of a MutableUtf8Array
ValueBytes(col) ==
    SumSeq([k \in 1..Len(col.data) |->
              IF col.data[k].null THEN 0 ELSE col.data[k].val * col.data[k].n])

\* MutableArray::push_null, MutablePrimitiveArray::push, ...: n more cells
Extend(col, null, val, n) ==
    IF n = 0 THEN col
    ELSE [col EXCEPT !.data = Append(@, Chunk(null, IF null THEN 0 ELSE val, n))]

(***************************************************************************)
(* mem.rs: the MemUsage protocol.                                          *)
(***************************************************************************)
BitmapMemUsage(len) == len \div 8

ValidityMemUsage(col) == IF HasValidity(col) THEN BitmapMemUsage(ColLen(col)) ELSE 0

Utf8MemUsage(col) ==
    ValidityMemUsage(col) + ValueBytes(col) + (ColLen(col) + 1) * SizeOf("i32")

PrimitiveMemUsage(col) == ValidityMemUsage(col) + ColLen(col) * SizeOf(col.type)

BooleanMemUsage(col) == ValidityMemUsage(col) + BitmapMemUsage(ColLen(col))

\* impl MemUsage for MutableFixedSizeBinaryArray: the values buffer alone
FixedSizeBinaryMemUsage(col) == ColLen(col) * UuidSize

\* the builders VarArray::mem_usage finds by downcast
MemUsageKnown(col) == col.type \in {"Utf8", "i64", "i32", "i16", "u8", "Boolean"}

\* impl MemUsage for VarArray (the last branch is the release build's)
VarArrayMemUsage(col) ==
    CASE col.type = "Utf8" -> Utf8MemUsage(col)
      [] col.type \in {"i64", "i32", "i16", "u8"} -> PrimitiveMemUsage(col)
      [] col.type = "Boolean" -> BooleanMemUsage(col)
      [] OTHER -> ColLen(col) * 16

(***************************************************************************)
(* table.rs: Table.                                                        *)
(***************************************************************************)
make_builders(sch, c) == [i \in 1..Len(sch) |-> array_with_capacity(sch[i], c)]

\* check_consistent with skip(2) for skip(1): column 1 is never compared
check_consistent_skip2(bs) ==
    \A i \in 3..Len(bs) : ColLen(bs[i]) = ColLen(bs[1])

\* Table::check_consistent: TRUE when it returns Ok
check_consistent(bs) ==
    \A i \in 2..Len(bs) : ColLen(bs[i]) = ColLen(bs[1])

\* Table::rows
rows(bs) == ColLen(bs[1])

\* the sum finish_bulk_push stores
ExactMem(bs) == SumSeq([i \in 1..Len(bs) |-> VarArrayMemUsage(bs[i])])

\* VarArray::as_arc over every builder: the arrays of a batch
as_arc(col) == [type |-> col.type, data |-> col.data]

BatchOf(bs) == [i \in 1..Len(bs) |-> as_arc(bs[i])]

Some(v) == [some |-> TRUE, v |-> v]
None == [some |-> FALSE, v |-> 0]

\* the driver is between two calls
Idle == pc = "idle"

\* one more push call
CanPush == Idle /\ npush < MaxPushes /\ npush' = npush + 1

Done(op, res) == lastop' = op /\ result' = res

\* Table::push_null, called n times on column i
PushNull(i, n) ==
    /\ CanPush
    /\ mem_used' = mem_used + n
    /\ builders' = [builders EXCEPT ![i] = Extend(@, TRUE, 0, n)]
    /\ Done("push_null", "Ok")
    /\ UNCHANGED <<schema, cap, build, ret>>
    /\ UNCHANGED writerVars
    /\ UNCHANGED driverVars
    /\ UNCHANGED transformVars

\* how many of n strings of len bytes a MutableUtf8Array<i32> still takes
Utf8Fits(col, len, n) ==
    IF len = 0 THEN n ELSE Min(n, (I32Max - ValueBytes(col)) \div len)

\* Table::push_str, called n times on column i with the same val
PushStr(i, val, n) ==
    /\ CanPush
    /\ IF builders[i].type = "Utf8"
       THEN LET len == IF val.some THEN val.v ELSE 0
                k == IF val.some THEN Utf8Fits(builders[i], len, n) ELSE n
            IN  /\ builders' = [builders EXCEPT ![i] = Extend(@, ~val.some, len, k)]
                /\ mem_used' = mem_used
                      + (IF k < n THEN k + 1 ELSE n) * (len + SizeOf("i32"))
                /\ Done("push_str", IF k < n THEN "Overflow" ELSE "Ok")
       ELSE /\ UNCHANGED <<builders, mem_used>>
            /\ Done("push_str", "TypeMismatch")
    /\ UNCHANGED <<schema, cap, build, ret>>
    /\ UNCHANGED writerVars
    /\ UNCHANGED driverVars
    /\ UNCHANGED transformVars

\* a push_bool that counts every bool as a 32-bit word
PushBoolByWord(i, val, n) ==
    /\ CanPush
    /\ IF builders[i].type = "Boolean"
       THEN /\ mem_used' = mem_used + n * SizeOf("i32")
            /\ builders' = [builders EXCEPT ![i] = Extend(@, ~val.some, val.v, n)]
            /\ Done("push_bool", "Ok")
       ELSE /\ UNCHANGED <<builders, mem_used>>
            /\ Done("push_bool", "TypeMismatch")
    /\ UNCHANGED <<schema, cap, build, ret>>
    /\ UNCHANGED writerVars
    /\ UNCHANGED driverVars
    /\ UNCHANGED transformVars

\* Table::push_bool, called n times on column i with the same val
PushBool(i, val, n) ==
    /\ CanPush
    /\ IF builders[i].type = "Boolean"
       THEN /\ mem_used' = mem_used + n
            /\ builders' = [builders EXCEPT ![i] = Extend(@, ~val.some, val.v, n)]
            /\ Done("push_bool", "Ok")
       ELSE /\ UNCHANGED <<builders, mem_used>>
            /\ Done("push_bool", "TypeMismatch")
    /\ UNCHANGED <<schema, cap, build, ret>>
    /\ UNCHANGED writerVars
    /\ UNCHANGED driverVars
    /\ UNCHANGED transformVars

\* Table::push_fsb, called n times on column i with the same val of sz bytes
PushFsb(i, val, sz, n) ==
    /\ CanPush
    /\ IF ~val.some
       THEN /\ builders' = [builders EXCEPT ![i] = Extend(@, TRUE, 0, n)]
            /\ UNCHANGED mem_used
            /\ Done("push_fsb", "Ok")
       ELSE IF builders[i].type = "FixedSizeBinary"
       THEN IF sz = UuidSize
            THEN /\ mem_used' = mem_used + n * UuidSize
                 /\ builders' = [builders EXCEPT ![i] = Extend(@, FALSE, val.v, n)]
                 /\ Done("push_fsb", "Ok")
            ELSE /\ mem_used' = mem_used + UuidSize
                 /\ UNCHANGED builders
                 /\ Done("push_fsb", "InvalidArgument")
       ELSE /\ UNCHANGED <<builders, mem_used>>
            /\ Done("push_fsb", "TypeMismatch")
    /\ UNCHANGED <<schema, cap, build, ret>>
    /\ UNCHANGED writerVars
    /\ UNCHANGED driverVars
    /\ UNCHANGED transformVars

\* Table::push_primitive::<T>, called n times on column i with the same val
PushPrimitive(T, i, val, n) ==
    /\ CanPush
    /\ IF builders[i].type = T
       THEN /\ mem_used' = mem_used + n * SizeOf(T)
            /\ builders' = [builders EXCEPT ![i] = Extend(@, ~val.some, val.v, n)]
            /\ Done("push_primitive", "Ok")
       ELSE /\ UNCHANGED <<builders, mem_used>>
            /\ Done("push_primitive", "TypeMismatch")
    /\ UNCHANGED <<schema, cap, build, ret>>
    /\ UNCHANGED writerVars
    /\ UNCHANGED driverVars
    /\ UNCHANGED transformVars

\* the outcome of Table::finish_bulk_push on the builders bs
finish_bulk_push_result(bs, bld) ==
    IF ~check_consistent(bs) THEN "SchemaViolation"
    ELSE IF bld = "debug" /\ \E i \in 1..Len(bs) : ~MemUsageKnown(bs[i])
    THEN "Panic"
    ELSE "Ok"

\* Table::check_consistent
CheckConsistent ==
    /\ Idle
    /\ UNCHANGED npush
    /\ Done("check_consistent",
            IF check_consistent(builders) THEN "Ok" ELSE "SchemaViolation")
    /\ UNCHANGED <<ret>>
    /\ UNCHANGED tableVars
    /\ UNCHANGED writerVars
    /\ UNCHANGED driverVars
    /\ UNCHANGED transformVars

\* the Packer and its Writer go out of scope: the sender closes and the
\* JoinHandle, if still there, is dropped without a join
DropWriter ==
    /\ tx' = "dropped"
    /\ thread' = IF thread = "Some" THEN "Detached" ELSE thread

\* Table::finish_bulk_push
FinishBulkPush ==
    /\ Idle
    /\ UNCHANGED npush
    /\ LET res == finish_bulk_push_result(builders, build)
       IN  /\ mem_used' = IF res = "Ok" THEN ExactMem(builders) ELSE mem_used
           /\ Done("finish_bulk_push", res)
           /\ IF res = "Panic"
              THEN pc' = "panicked" /\ DropWriter
              ELSE UNCHANGED <<pc, tx, thread>>
    /\ UNCHANGED <<schema, builders, cap, build, ret>>
    /\ UNCHANGED <<rx, chan, task, received>>
    /\ UNCHANGED <<caller, pending, submitted, accepted, sent, outcome, flushed>>
    /\ UNCHANGED transformVars

\* take_batch without the reset of mem_used
TakeBatchKeepsMem ==
    /\ Idle
    /\ UNCHANGED npush
    /\ ret' = BatchOf(builders)
    /\ builders' = make_builders(schema, cap)
    /\ mem_used' = mem_used
    /\ Done("take_batch", "Ok")
    /\ UNCHANGED <<schema, cap, build>>
    /\ UNCHANGED writerVars
    /\ UNCHANGED driverVars
    /\ UNCHANGED transformVars

\* Table::take_batch
TakeBatch ==
    /\ Idle
    /\ UNCHANGED npush
    /\ ret' = BatchOf(builders)
    /\ builders' = make_builders(schema, cap)
    /\ mem_used' = 0
    /\ Done("take_batch", "Ok")
    /\ UNCHANGED <<schema, cap, build>>
    /\ UNCHANGED writerVars
    /\ UNCHANGED driverVars
    /\ UNCHANGED transformVars

(***************************************************************************)
(* write.rs: the Writer and its encoder thread; packer.rs: the Packer.     *)
(***************************************************************************)
\* RecordBatch::try_from_iter: the columns of a batch have one length
record_batch_ok(batch) ==
    /\ Len(batch) > 0
    /\ \A i \in 1..Len(batch) : ColLen(batch[i]) = ColLen(batch[1])

\* a send that takes one message more than the buffer holds
can_send_one_more(ch) == Len(ch) <= ChanCap

\* a send that never finds a slot
can_send_never(ch) == FALSE

\* SyncSender::send finds a free slot in the buffer
can_send(ch) == Len(ch) < ChanCap

\* Receiver::recv: the message the encoder thread takes, and what stays queued
recv_item(ch) == Head(ch)

\* a receive that leaves the message in the buffer
recv_rest_keeps(ch) == ch

recv_rest(ch) == Tail(ch)

\* consider_flushing with >= for > in both comparisons
should_flush_inclusive(mem, nrows) == mem >= MemThreshold \/ nrows >= RowThreshold

\* the condition of Packer::consider_flushing
should_flush(mem, nrows) == mem > MemThreshold \/ nrows > RowThreshold

\* flush without its early return
flush_never_noop(nrows) == FALSE

\* the early return of Packer::flush
flush_is_noop(nrows) == nrows = 0

\* how far Packer::flush gets on the Table bs: "noop", the failure of
\* finish_bulk_push, "AlreadyFailed" of submit_batch, or the blocking "send"
flush_outcome(bs, bld, thr) ==
    IF flush_is_noop(rows(bs)) THEN "noop"
    ELSE IF finish_bulk_push_result(bs, bld) # "Ok"
    THEN finish_bulk_push_result(bs, bld)
    ELSE IF thr # "Some" THEN "AlreadyFailed"
    ELSE "send"

\* Packer::flush took the batch off the Table and handed it to submit_batch
TakesBatch(o) == o \in {"AlreadyFailed", "send"}

\* a submit_batch that joins the thread and drops what it returned
submit_join_swallows(t) == IF t = "panicked" THEN "Panic" ELSE "Ok"

\* what the driver gets when it joins the exited encoder thread in submit_batch
submit_join_result(t) ==
    CASE t = "panicked" -> "Panic"
      [] t = "err" -> "ThreadFailure"
      [] OTHER -> "Ok"

\* a finish that joins the thread and drops the error it returned
finish_join_swallows(t) == IF t = "panicked" THEN "Panic" ELSE "Ok"

\* what the driver gets when it joins the encoder thread in Writer::finish
finish_join_result(t) ==
    CASE t = "panicked" -> "Panic"
      [] t = "err" -> "ThreadFailure"
      [] OTHER -> "Ok"

\* a flush that submits the batch and leaves its rows in the Table
FlushTableKeepsRows(o) ==
    /\ flushed' = TRUE
    /\ IF TakesBatch(o)
       THEN /\ builders' = builders
            /\ mem_used' = 0
            /\ submitted' = Append(submitted, BatchOf(builders))
       ELSE UNCHANGED <<builders, mem_used, submitted>>

\* the Table part of Packer::flush with outcome o
FlushTable(o) ==
    /\ flushed' = TRUE
    /\ IF TakesBatch(o)
       THEN /\ builders' = make_builders(schema, cap)
            /\ mem_used' = 0
            /\ submitted' = Append(submitted, BatchOf(builders))
       ELSE UNCHANGED <<builders, mem_used, submitted>>

\* Packer::consider_flushing, up to its return or to the blocking send
ConsiderFlushing ==
    /\ Idle
    /\ LET o == flush_outcome(builders, build, thread)
       IN IF ~check_consistent(builders)
          THEN /\ Done("consider_flushing", "SchemaViolation")
               /\ flushed' = FALSE
               /\ UNCHANGED <<builders, mem_used, submitted, pc, caller, pending,
                              tx, thread>>
          ELSE IF ~should_flush(mem_used, rows(builders))
          THEN /\ Done("consider_flushing", "Ok")
               /\ flushed' = FALSE
               /\ UNCHANGED <<builders, mem_used, submitted, pc, caller, pending,
                              tx, thread>>
          ELSE /\ TakesBatch(o) => Len(submitted) < MaxBatches
               /\ FlushTable(o)
               /\ CASE o = "noop" ->
                        /\ Done("consider_flushing", "Ok")
                        /\ UNCHANGED <<pc, caller, pending, tx, thread>>
                    [] o = "send" ->
                        /\ Done("consider_flushing", "blocked")
                        /\ pc' = "send"
                        /\ caller' = "consider_flushing"
                        /\ pending' = BatchOf(builders)
                        /\ UNCHANGED <<tx, thread>>
                    [] o = "Panic" ->
                        /\ Done("consider_flushing", "Panic")
                        /\ pc' = "panicked"
                        /\ DropWriter
                        /\ UNCHANGED <<caller, pending>>
                    [] OTHER ->
                        /\ Done("consider_flushing", o)
                        /\ UNCHANGED <<pc, caller, pending, tx, thread>>
    /\ UNCHANGED <<schema, cap, build, ret, npush>>
    /\ UNCHANGED <<rx, chan, task, received>>
    /\ UNCHANGED <<accepted, sent, outcome>>
    /\ UNCHANGED transformVars

\* Writer::finish up to the join: the handle is taken and the sender dropped
WriterFinish(op) ==
    IF thread # "Some"
    THEN /\ Done(op, "AlreadyFailed")
         /\ pc' = "done"
         /\ DropWriter
    ELSE /\ Done(op, "blocked")
         /\ pc' = "join"
         /\ thread' = "None"
         /\ tx' = "dropped"

\* Packer::finish, up to its return or to the blocking send or join
PackerFinish ==
    /\ Idle
    /\ LET o == flush_outcome(builders, build, thread)
       IN /\ TakesBatch(o) => Len(submitted) < MaxBatches
          /\ FlushTable(o)
          /\ CASE o = "noop" ->
                   /\ WriterFinish("finish")
                   /\ UNCHANGED <<pending>>
               [] o = "send" ->
                   /\ Done("finish", "blocked")
                   /\ pc' = "send"
                   /\ pending' = BatchOf(builders)
                   /\ UNCHANGED <<tx, thread>>
               [] o = "Panic" ->
                   /\ Done("finish", "Panic")
                   /\ pc' = "panicked"
                   /\ DropWriter
                   /\ UNCHANGED <<pending>>
               [] OTHER ->
                   /\ Done("finish", o)
                   /\ pc' = "done"
                   /\ DropWriter
                   /\ UNCHANGED <<pending>>
    /\ caller' = "finish"
    /\ UNCHANGED <<schema, cap, build, ret, npush>>
    /\ UNCHANGED <<rx, chan, task, received>>
    /\ UNCHANGED <<accepted, sent, outcome>>
    /\ UNCHANGED transformVars

\* the blocking send of Writer::submit_batch finds a slot; submit_batch and
\* Packer::flush return Ok, and Packer::finish goes on into Writer::finish
SendOk ==
    /\ pc = "send"
    /\ rx = "alive"
    /\ can_send(chan)
    /\ chan' = Append(chan, pending)
    /\ sent' = Append(sent, pending)
    /\ accepted' = Append(accepted, pending)
    /\ pending' = <<>>
    /\ IF caller = "finish"
       THEN WriterFinish(caller)
       ELSE Done(caller, "Ok") /\ pc' = "idle" /\ UNCHANGED <<tx, thread>>
    /\ UNCHANGED <<ret, npush>>
    /\ UNCHANGED tableVars
    /\ UNCHANGED <<rx, task, received>>
    /\ UNCHANGED <<caller, submitted, outcome, flushed>>
    /\ UNCHANGED transformVars

\* the send fails because the receiver is gone: submit_batch takes the
\* handle, drops the sender and joins the thread
SendFail ==
    /\ pc = "send"
    /\ rx = "dropped"
    /\ outcome' = task
    /\ pending' = <<>>
    /\ LET res == submit_join_result(task)
       IN  /\ accepted' = IF res = "Ok" THEN Append(accepted, pending) ELSE accepted
           /\ IF res = "Panic"
              THEN /\ Done(caller, "Panic")
                   /\ pc' = "panicked"
                   /\ tx' = "dropped"
                   /\ thread' = "None"
              ELSE IF caller = "finish"
              THEN IF res = "Ok"
                   THEN /\ Done(caller, "AlreadyFailed")
                        /\ pc' = "done"
                        /\ tx' = "dropped"
                        /\ thread' = "None"
                   ELSE /\ Done(caller, res)
                        /\ pc' = "done"
                        /\ tx' = "dropped"
                        /\ thread' = "None"
              ELSE /\ Done(caller, res)
                   /\ pc' = "idle"
                   /\ tx' = "dropped"
                   /\ thread' = "None"
    /\ UNCHANGED <<ret, npush>>
    /\ UNCHANGED tableVars
    /\ UNCHANGED <<rx, chan, task, received>>
    /\ UNCHANGED <<caller, submitted, sent, flushed>>
    /\ UNCHANGED transformVars

\* Writer::finish: JoinHandle::join returns once the encoder thread has exited
JoinStep ==
    /\ pc = "join"
    /\ task # "running"
    /\ outcome' = task
    /\ Done(caller, finish_join_result(task))
    /\ pc' = IF finish_join_result(task) = "Panic" THEN "panicked" ELSE "done"
    /\ UNCHANGED <<ret, npush>>
    /\ UNCHANGED tableVars
    /\ UNCHANGED writerVars
    /\ UNCHANGED <<caller, pending, submitted, accepted, sent, flushed>>
    /\ UNCHANGED transformVars

\* the encoder thread leaves: the receiver and what is still queued are dropped
TaskExit(how) ==
    /\ task' = how
    /\ rx' = "dropped"
    /\ chan' = <<>>

DriverUnchanged ==
    /\ UNCHANGED <<lastop, result, ret, npush, thread, tx>>
    /\ UNCHANGED tableVars
    /\ UNCHANGED driverVars
    /\ UNCHANGED transformVars

\* out_thread: rx.into_iter() yields the next batch to write_file; a batch
\* that RecordBatch::try_from_iter refused ends the thread with its error
TaskRecv ==
    /\ task = "running"
    /\ chan # <<>>
    /\ received' = Append(received, recv_item(chan))
    /\ IF record_batch_ok(recv_item(chan))
       THEN chan' = recv_rest(chan) /\ UNCHANGED <<task, rx>>
       ELSE TaskExit("err")
    /\ DriverUnchanged

\* the iterator ends as soon as the sender is gone, whatever is still queued
stream_ended_early(ch, sender) == sender = "dropped"

\* the iterator ends whenever the buffer is empty, sender or no sender
stream_ended_on_empty(ch, sender) == ch = <<>>

\* the iterator ends once the sender is gone and the buffer is empty
stream_ended(ch, sender) == ch = <<>> /\ sender = "dropped"

\* out_thread: the stream ended, write_file writes the footer, Ok(inner)
TaskFinalize ==
    /\ task = "running"
    /\ stream_ended(chan, tx)
    /\ TaskExit("ok")
    /\ UNCHANGED received
    /\ DriverUnchanged

\* out_thread: RowGroupIterator::try_new or write_file returns an error
TaskFail ==
    /\ task = "running"
    /\ TaskExit("err")
    /\ UNCHANGED received
    /\ DriverUnchanged

\* out_thread: the encoder thread panics
TaskPanic ==
    /\ task = "running"
    /\ TaskExit("panicked")
    /\ UNCHANGED received
    /\ DriverUnchanged

(***************************************************************************)
(* table.rs: Kind and the arrow2 DataType; repack.rs: transform.  A field  *)
(* is a name with a DataType; an Op's output is the field list of a Split. *)
(***************************************************************************)
DataTypes ==
    {"Boolean", "UInt8", "Int32", "Int64", "Float64", "Utf8", "FixedSizeBinary(16)",
     "Timestamp(Second, None)", "Int16", "LargeUtf8", "Timestamp(Millisecond, None)"}

\* Kind::to_arrow
to_arrow(kind) ==
    CASE kind = "Bool" -> "Boolean"
      [] kind = "U8" -> "UInt8"
      [] kind = "I32" -> "Int32"
      [] kind = "I64" -> "Int64"
      [] kind = "F64" -> "Float64"
      [] kind = "String" -> "Utf8"
      [] kind = "Uuid" -> "FixedSizeBinary(16)"
      [] kind = "TimestampSecsZ" -> "Timestamp(Second, None)"

\* a from_arrow that takes every DataType it does not know for a String
from_arrow_lenient(arrow) ==
    CASE arrow = "Boolean" -> "Bool"
      [] arrow = "Int64" -> "I64"
      [] arrow = "Int32" -> "I32"
      [] arrow = "UInt8" -> "U8"
      [] arrow = "Float64" -> "F64"
      [] arrow = "Timestamp(Second, None)" -> "TimestampSecsZ"
      [] OTHER -> "String"

\* Kind::from_arrow: the Kind, or "unsupported" where it bails
from_arrow(arrow) ==
    CASE arrow = "Utf8" -> "String"
      [] arrow = "Boolean" -> "Bool"
      [] arrow = "Int64" -> "I64"
      [] arrow = "Int32" -> "I32"
      [] arrow = "UInt8" -> "U8"
      [] arrow = "Float64" -> "F64"
      [] arrow = "Timestamp(Second, None)" -> "TimestampSecsZ"
      [] OTHER -> "unsupported"

\* the concrete array a column of a DataType is read into
ArrayType(arrow) ==
    CASE arrow = "Boolean" -> "Boolean"
      [] arrow = "UInt8" -> "u8"
      [] arrow = "Int16" -> "i16"
      [] arrow = "Int32" -> "i32"
      [] arrow = "Int64" -> "i64"
      [] arrow = "Float64" -> "f64"
      [] arrow = "Utf8" -> "Utf8"
      [] arrow = "LargeUtf8" -> "LargeUtf8"
      [] arrow = "FixedSizeBinary(16)" -> "FixedSizeBinary"
      [] OTHER -> "i64"

Field(name, data_type) == [name |-> name, data_type |-> data_type, ok |-> TRUE]

\* the Err a Copy of a missing input column contributes to the output schema
MissingField == [name |-> "", data_type |-> "", ok |-> FALSE]

OpOf(input, action, output) == [input |-> input, action |-> action, output |-> output]

\* find_field, and Writer::find_field: the first field of that name, 0 for None
find_field(sch, name) ==
    IF \E i \in 1..Len(sch) : sch[i].name = name
    THEN CHOOSE i \in 1..Len(sch) :
            /\ sch[i].name = name
            /\ \A j \in 1..(i - 1) : sch[j].name # name
    ELSE 0

\* what one Op contributes to the output schema
op_fields(op, in_sch) ==
    CASE op.action \in {"Drop", "ErrorOut"} -> <<>>
      [] op.action = "Copy" ->
            IF find_field(in_sch, op.input) = 0
            THEN <<MissingField>>
            ELSE <<Field(in_sch[find_field(in_sch, op.input)].name,
                         in_sch[find_field(in_sch, op.input)].data_type)>>
      [] op.action = "Split" -> op.output

RECURSIVE out_schema(_, _)
out_schema(os, in_sch) ==
    IF os = <<>> THEN <<>>
    ELSE op_fields(Head(os), in_sch) \o out_schema(Tail(os), in_sch)

\* the Kinds of the Table that transform makes for the output fields
table_schema(out) == [i \in 1..Len(out) |-> from_arrow(out[i].data_type)]

\* how the schema derivation of transform ends
derive_result(out) ==
    IF \E i \in 1..Len(out) : ~out[i].ok THEN "FieldMissing"
    ELSE IF \E i \in 1..Len(out) : from_arrow(out[i].data_type) = "unsupported"
    THEN "ExternalTypeUnsupported"
    ELSE "Ok"

\* Writer.schema during a transform: the fields of the output
WriterFields == out_schema(ops, in_schema)

\* Table::get_many: the columns among items, in the order of the Table
get_many(items) ==
    LET S == {items[k] : k \in 1..Len(items)}
    IN  [j \in 1..Cardinality(S) |->
            CHOOSE i \in S : Cardinality({x \in S : x < i}) = j - 1]

\* the builders a Copy extends by downcast
CopyKnown(col) == col.type \in {"Utf8", "i64", "i32", "Boolean", "f64"}

\* transform has read no source and made no Packer: there is no Writer yet
Unspawned ==
    /\ task = "unspawned"
    /\ thread = "None"
    /\ tx = "none"
    /\ rx = "none"

\* Packer::new: Writer::new spawns the encoder thread behind the channel, and
\* Table::with_capacity(kinds, 0) makes the builders
PackerNew(kinds) ==
    /\ schema' = kinds
    /\ builders' = make_builders(kinds, 0)
    /\ thread' = "Some"
    /\ tx' = "open"
    /\ rx' = "alive"
    /\ task' = "running"

\* transform, from its entry to Packer::new or to the failure of the derivation
DeriveSchema ==
    /\ tpc = "schema"
    /\ LET out == out_schema(ops, in_schema)
           res == derive_result(out)
       IN IF res = "Ok"
          THEN /\ PackerNew(table_schema(out))
               /\ tpc' = "loop"
               /\ Done("new", "Ok")
          ELSE /\ tpc' = "ret"
               /\ Done("transform", res)
               /\ UNCHANGED <<schema, builders, thread, tx, rx, task>>
    /\ UNCHANGED <<cap, mem_used, build, chan, received, ret, npush>>
    /\ UNCHANGED driverVars
    /\ UNCHANGED <<in_schema, ops, row_groups, next_rg, opi, filter_calls, ops_run>>

\* a loop that goes into the Ops of a row group rg_filter has skipped
loop_decision_skip_runs(d) ==
    CASE d = "Include" -> "ops"
      [] d = "Skip" -> "ops"
      [] d = "Break" -> "break"

\* the match on the LoopDecision: go on into the Ops, continue, or break
loop_decision(d) ==
    CASE d = "Include" -> "ops"
      [] d = "Skip" -> "loop"
      [] d = "Break" -> "break"

\* transform is at the head of the row-group loop
AtLoopHead ==
    /\ pc = "idle"
    /\ \/ tpc = "loop"
       \/ tpc = "body" /\ lastop = "consider_flushing" /\ result = "Ok"

\* transform has left the loop and is at writer.finish()
AtFinish ==
    /\ pc = "idle"
    /\ \/ tpc = "break"
       \/ AtLoopHead /\ next_rg = Len(row_groups)

\* the loop takes the next row group and asks rg_filter, which answers d
RgFilter(d) ==
    /\ AtLoopHead
    /\ next_rg < Len(row_groups)
    /\ filter_calls' = Append(filter_calls, [rg |-> next_rg, decision |-> d])
    /\ next_rg' = next_rg + 1
    /\ tpc' = IF loop_decision(d) = "ops" /\ ops = <<>> THEN "body" ELSE loop_decision(d)
    /\ opi' = 1
    /\ Done("rg_filter", "Ok")
    /\ UNCHANGED <<in_schema, ops, row_groups, ops_run, ret, npush>>
    /\ UNCHANGED tableVars
    /\ UNCHANGED writerVars
    /\ UNCHANGED driverVars

\* how one Op of the inner loop ends: the input column is looked up and read
\* (read_ok: the read and the decoding succeed), then the Action is matched;
\* func is what the closure of a Split does
op_outcome(op, read_ok, func) ==
    IF find_field(in_schema, op.input) = 0 THEN "FieldMissing"
    ELSE IF ~read_ok THEN "ReadError"
    ELSE CASE op.action = "ErrorOut" -> "UserAbort"
           [] op.action = "Drop" -> "Panic"
           [] op.action = "Copy" ->
                 IF ~CopyKnown(builders[find_field(WriterFields, op.input)])
                 THEN "TypeMismatch"
                 ELSE IF ArrayType(in_schema[find_field(in_schema, op.input)].data_type)
                            # builders[find_field(WriterFields, op.input)].type
                 THEN "Panic"
                 ELSE "Ok"
           [] op.action = "Split" -> IF func = "err" THEN "SplitError" ELSE "Ok"

\* the Table columns named by the declared output fields of a Split, in the
\* declared order: the Vec fields
split_fields(op) ==
    [k \in 1..Len(op.output) |-> find_field(WriterFields, op.output[k].name)]

\* the slice the closure of a Split is called with, by column index; <<>> for
\* an Op that is no Split or that fails before its Action is matched
op_views(op, read_ok) ==
    IF /\ op.action = "Split"
       /\ find_field(in_schema, op.input) # 0
       /\ read_ok
    THEN get_many(split_fields(op))
    ELSE <<>>

\* the arrays the source can hold for one column of a row group of n rows:
\* all values, all nulls, or a value followed by nulls
SourceArrays(n) ==
    IF n = 0 THEN {<<>>}
    ELSE {<<Chunk(FALSE, 1, n)>>, <<Chunk(TRUE, 0, n)>>}
         \cup (IF n >= 2 THEN {<<Chunk(FALSE, 1, 1), Chunk(TRUE, 0, n - 1)>>} ELSE {})

\* the arrays the column read by the current Op can hold
CurrentArrays ==
    IF tpc = "ops" THEN SourceArrays(row_groups[next_rg]) ELSE {}

\* the rows of an array read from the source
ArrLen(arr) == SumSeq([k \in 1..Len(arr) |-> arr[k].n])

\* extend / try_extend of a builder with the iterator of an array: the
\* cells of the array, nulls included, in their order
ExtendFrom(col, arr) == [col EXCEPT !.data = @ \o arr]

\* the builders after an Op that went well: a Copy extends its output column
\* with the array arr read; the closure of a Split pushes one row per row of
\* arr to each builder get_many gave it ("short": to all but the last of them)
op_builders(op, arr, func) ==
    CASE op.action = "Copy" ->
            [builders EXCEPT ![find_field(WriterFields, op.input)] = ExtendFrom(@, arr)]
      [] op.action = "Split" ->
            LET cols == get_many(split_fields(op))
            IN  [i \in 1..Len(builders) |->
                    IF \E j \in 1..Len(cols) :
                          cols[j] = i /\ (func = "short" => j < Len(cols))
                    THEN Extend(builders[i], FALSE, 1, ArrLen(arr))
                    ELSE builders[i]]
      [] OTHER -> builders

\* one Op of the inner loop on the current row group
RunOp(read_ok, func, arr) ==
    /\ tpc = "ops"
    /\ pc = "idle"
    /\ ops_run' = Append(ops_run, [rg |-> next_rg - 1, op |-> opi,
                                   views |-> op_views(ops[opi], read_ok)])
    /\ LET o == op_outcome(ops[opi], read_ok, func)
       IN CASE o = "Ok" ->
                 /\ builders' = op_builders(ops[opi], arr, func)
                 /\ opi' = opi + 1
                 /\ tpc' = IF opi = Len(ops) THEN "body" ELSE "ops"
                 /\ Done("op", "Ok")
                 /\ UNCHANGED <<pc, tx, thread>>
            [] o = "Panic" ->
                 /\ pc' = "panicked"
                 /\ DropWriter
                 /\ Done("op", "Panic")
                 /\ UNCHANGED <<builders, opi, tpc>>
            [] OTHER ->
                 /\ tpc' = "ret"
                 /\ DropWriter
                 /\ Done("transform", o)
                 /\ UNCHANGED <<builders, opi, pc>>
    /\ UNCHANGED <<in_schema, ops, row_groups, next_rg, filter_calls>>
    /\ UNCHANGED <<schema, cap, mem_used, build, ret, npush>>
    /\ UNCHANGED <<rx, chan, task, received>>
    /\ UNCHANGED <<caller, pending, submitted, accepted, sent, outcome, flushed>>

\* writer.table().finish_bulk_push()? at the end of a row group
TransformFinishBulkPush ==
    /\ tpc = "body"
    /\ lastop \in {"op", "rg_filter"}
    /\ builders # <<>>
    /\ FinishBulkPush

\* writer.consider_flushing()? at the end of a row group
TransformConsiderFlushing ==
    /\ tpc = "body"
    /\ lastop = "finish_bulk_push"
    /\ result = "Ok"
    /\ ConsiderFlushing

\* the ? after finish_bulk_push and consider_flushing: transform returns the
\* error, and its Packer goes out of scope
Propagate ==
    /\ tpc = "body"
    /\ pc = "idle"
    /\ lastop \in {"finish_bulk_push", "consider_flushing"}
    /\ result # "Ok"
    /\ tpc' = "ret"
    /\ DropWriter
    /\ UNCHANGED <<in_schema, ops, row_groups, next_rg, opi, filter_calls, ops_run>>
    /\ UNCHANGED <<lastop, result, ret, npush>>
    /\ UNCHANGED tableVars
    /\ UNCHANGED <<rx, chan, task, received>>
    /\ UNCHANGED driverVars

\* a Table of no column: builders[0] in check_consistent and rows is out of
\* bounds, and transform unwinds
EmptyTablePanic ==
    /\ builders = <<>>
    /\ \/ tpc = "body" /\ pc = "idle"
       \/ AtFinish
    /\ pc' = "panicked"
    /\ DropWriter
    /\ Done(IF tpc = "body" THEN "finish_bulk_push" ELSE "finish", "Panic")
    /\ UNCHANGED transformVars
    /\ UNCHANGED <<ret, npush>>
    /\ UNCHANGED tableVars
    /\ UNCHANGED <<rx, chan, task, received>>
    /\ UNCHANGED <<caller, pending, submitted, accepted, sent, outcome, flushed>>

\* writer.finish() after the loop
TransformFinish ==
    /\ AtFinish
    /\ builders # <<>>
    /\ PackerFinish

\* transform has returned to its caller or unwound
TransformReturned == tpc = "ret" \/ (tpc # "none" /\ pc \in {"done", "panicked"})

(***************************************************************************)
(* Specifications.                                                         *)
(***************************************************************************)
\* the Packer is driven by its caller, not by transform
NoTransform ==
    /\ in_schema = <<>>
    /\ ops = <<>>
    /\ row_groups = <<>>
    /\ next_rg = 0
    /\ opi = 0
    /\ tpc = "none"
    /\ filter_calls = <<>>
    /\ ops_run = <<>>

\* Writer::new and Table::with_capacity have returned
InitWith(configs) ==
    /\ \E c \in configs : schema = c.schema /\ cap = c.cap /\ build = c.build
    /\ builders = make_builders(schema, cap)
    /\ mem_used = 0
    /\ thread = "Some"
    /\ tx = "open"
    /\ rx = "alive"
    /\ chan = <<>>
    /\ task = "running"
    /\ received = <<>>
    /\ pc = "idle"
    /\ caller = "none"
    /\ pending = <<>>
    /\ lastop = "new"
    /\ result = "Ok"
    /\ ret = <<>>
    /\ submitted = <<>>
    /\ accepted = <<>>
    /\ sent = <<>>
    /\ outcome = "none"
    /\ flushed = FALSE
    /\ npush = 0
    /\ NoTransform

\* the strings of the Packer runs: one byte, and the two lengths that bring a
\* Table of one row to exactly the memory threshold and one byte above it
BigStr == MemThreshold - 12

PackerStrLens == {1, BigStr, BigStr + 1}

Config(sch, c, bld) == [schema |-> sch, cap |-> c, build |-> bld]

\* Packer::new(out, schema) makes the Table with capacity 0 (packer.rs:17);
\* the build matters to a schema with a builder VarArray::mem_usage does not know
PackerConfigs ==
    {Config(<<"I64", "String">>, 0, "release"),
     Config(<<"F64", "String">>, 0, "release"),
     Config(<<"F64", "String">>, 0, "debug")}

Cols == 1..Len(schema)

PackerPush ==
    \/ \E i \in Cols : PushNull(i, 1)
    \/ \E n \in {1, RowThreshold} : PushPrimitive(builders[1].type, 1, Some(7), n)
    \/ \E n \in {1, RowThreshold} : PushStr(2, Some(1), n)
    \/ \E len \in PackerStrLens : PushStr(2, Some(len), 1)

Init == InitWith(PackerConfigs)

Next ==
    \/ PackerPush
    \/ FinishBulkPush
    \/ ConsiderFlushing
    \/ PackerFinish
    \/ SendOk
    \/ SendFail
    \/ JoinStep
    \/ TaskRecv
    \/ TaskFinalize
    \/ TaskFail
    \/ TaskPanic

Spec == Init /\ [][Next]_vars

\* Tables over every Kind, driven through the Table's own operations
TableConfigs ==
    {Config(<<"I64", "String", "Bool">>, 0, "release"),
     Config(<<"Uuid", "F64">>, 2, "release"),
     Config(<<"Uuid", "F64">>, 2, "debug"),
     Config(<<"U8", "I32", "TimestampSecsZ">>, 2, "debug")}

TablePush ==
    \/ \E i \in Cols, n \in {1, 2} : PushNull(i, n)
    \/ \E i \in Cols, val \in {None, Some(3)} : PushStr(i, val, 1)
    \/ \E i \in Cols, val \in {None, Some(1)} : PushBool(i, val, 1)
    \/ \E i \in Cols, sz \in {4, UuidSize} : PushFsb(i, Some(9), sz, 1)
    \/ \E i \in Cols : PushFsb(i, None, UuidSize, 1)
    \/ \E i \in Cols, T \in {"u8", "i32", "i64", "f64"} : PushPrimitive(T, i, Some(7), 1)

InitTable == InitWith(TableConfigs)

NextTable ==
    \/ TablePush
    \/ CheckConsistent
    \/ FinishBulkPush
    \/ TakeBatch

SpecTable == InitTable /\ [][NextTable]_vars

\* the rows of a row group: one, or one more than the row threshold
BigRowGroup == RowThreshold + 1

TConfig(in_sch, os, rgs, bld) ==
    [in_schema |-> in_sch, ops |-> os, row_groups |-> rgs, build |-> bld]

SourceXY == <<Field("x", "Int64"), Field("y", "Utf8")>>

\* transforms over a source of one or two columns and up to three row groups
TransformConfigs ==
    {TConfig(SourceXY, <<OpOf("x", "Copy", <<>>), OpOf("y", "Copy", <<>>)>>,
             <<BigRowGroup, 1>>, "release"),
     TConfig(SourceXY, <<OpOf("x", "Copy", <<>>)>>, <<1, 1, 1>>, "release"),
     TConfig(SourceXY, <<OpOf("y", "Copy", <<>>), OpOf("x", "ErrorOut", <<>>)>>,
             <<1>>, "release"),
     TConfig(SourceXY, <<OpOf("x", "ErrorOut", <<>>)>>, <<1>>, "release"),
     TConfig(SourceXY, <<OpOf("y", "Copy", <<>>), OpOf("x", "Drop", <<>>)>>,
             <<1, 1>>, "release"),
     TConfig(SourceXY, <<OpOf("z", "Copy", <<>>)>>, <<1>>, "release"),
     TConfig(SourceXY,
             <<OpOf("x", "Split", <<Field("a", "Int64"), Field("b", "Boolean")>>)>>,
             <<1, 1>>, "release"),
     TConfig(SourceXY,
             <<OpOf("y", "Copy", <<>>), OpOf("x", "Split", <<Field("a", "LargeUtf8")>>)>>,
             <<1>>, "release"),
     TConfig(SourceXY,
             <<OpOf("x", "Split", <<Field("y", "Int64")>>), OpOf("y", "Copy", <<>>)>>,
             <<1>>, "release"),
     TConfig(SourceXY,
             <<OpOf("y", "Copy", <<>>),
               OpOf("x", "Split", <<Field("b", "Int64"), Field("y", "Boolean")>>)>>,
             <<1>>, "release"),
     TConfig(<<Field("x", "Int16"), Field("y", "Utf8")>>,
             <<OpOf("y", "Copy", <<>>), OpOf("x", "Copy", <<>>)>>, <<1>>, "release"),
     TConfig(<<Field("u", "FixedSizeBinary(16)")>>, <<OpOf("u", "Copy", <<>>)>>,
             <<1>>, "release"),
     TConfig(<<Field("x", "UInt8"), Field("t", "Timestamp(Second, None)")>>,
             <<OpOf("t", "Copy", <<>>), OpOf("x", "Copy", <<>>)>>, <<1>>, "release"),
     TConfig(<<Field("f", "Float64")>>, <<OpOf("f", "Copy", <<>>)>>, <<1, 1>>, "debug"),
     TConfig(<<Field("f", "Float64")>>, <<OpOf("f", "Copy", <<>>)>>, <<1, 1>>, "release")}

\* transform is entered: nothing is read, derived or created yet
InitTransform ==
    /\ \E c \in TransformConfigs :
          /\ in_schema = c.in_schema
          /\ ops = c.ops
          /\ row_groups = c.row_groups
          /\ build = c.build
    /\ schema = <<>>
    /\ builders = <<>>
    /\ cap = 0
    /\ mem_used = 0
    /\ Unspawned
    /\ chan = <<>>
    /\ received = <<>>
    /\ pc = "idle"
    /\ caller = "none"
    /\ pending = <<>>
    /\ lastop = "transform"
    /\ result = "none"
    /\ ret = <<>>
    /\ submitted = <<>>
    /\ accepted = <<>>
    /\ sent = <<>>
    /\ outcome = "none"
    /\ flushed = FALSE
    /\ npush = 0
    /\ next_rg = 0
    /\ opi = 0
    /\ tpc = "schema"
    /\ filter_calls = <<>>
    /\ ops_run = <<>>

NextTransform ==
    \/ DeriveSchema
    \/ \E d \in {"Include", "Skip", "Break"} : RgFilter(d)
    \/ \E read_ok \in BOOLEAN, func \in {"ok", "short", "err"}, arr \in CurrentArrays :
          RunOp(read_ok, func, arr)
    \/ TransformFinishBulkPush
    \/ TransformConsiderFlushing
    \/ Propagate
    \/ EmptyTablePanic
    \/ TransformFinish
    \/ SendOk
    \/ SendFail
    \/ JoinStep
    \/ TaskRecv
    \/ TaskFinalize
    \/ TaskFail
    \/ TaskPanic

SpecTransform == InitTransform /\ [][NextTransform]_vars

\* one Packer run of rows of one i64 and one string, flushed by memory
LiveConfigs == {Config(<<"I64", "String">>, 0, "release")}

LivePush ==
    \/ PushPrimitive("i64", 1, Some(7), 1)
    \/ \E len \in {1, BigStr + 1} : PushStr(2, Some(len), 1)

InitLive == InitWith(LiveConfigs)

NextLive ==
    \/ LivePush
    \/ FinishBulkPush
    \/ ConsiderFlushing
    \/ PackerFinish
    \/ SendOk
    \/ SendFail
    \/ JoinStep
    \/ TaskRecv
    \/ TaskFinalize
    \/ TaskFail
    \/ TaskPanic

\* the encoder thread is scheduled: it takes a queued batch and, at the end
\* of its stream, finalizes; a blocked send returns once there is a slot or
\* the receiver is gone, and a join returns once the thread has exited.  The
\* thread may or may not fail.
Fairness ==
    /\ WF_vars(TaskRecv)
    /\ WF_vars(TaskFinalize)
    /\ WF_vars(SendOk)
    /\ WF_vars(SendFail)
    /\ WF_vars(JoinStep)

SpecLive == InitLive /\ [][NextLive]_vars /\ Fairness

(***************************************************************************)
(* The claims.                                                             *)
(***************************************************************************)
\* C1: after any sequence of pushes, when finish_bulk_push returns Ok every
\* column of the Table has the same row count, and when some column's length
\* differs from column 0's it returns an error (SchemaViolation) instead.
C1_FinishBulkPushEqualRows ==
    lastop = "finish_bulk_push" =>
        /\ result = "Ok" =>
              \A i \in Cols, j \in Cols : ColLen(builders[i]) = ColLen(builders[j])
        /\ (\E i \in Cols : ColLen(builders[i]) # ColLen(builders[1])) =>
              result = "SchemaViolation"

\* finish_bulk_push returned Ok on a Table of three columns holding rows
C1_Witness ==
    /\ lastop = "finish_bulk_push"
    /\ result = "Ok"
    /\ Len(builders) = 3
    /\ ColLen(builders[1]) >= 2
    /\ npush >= 3

\* C2: take_batch returns exactly one array per schema field, in schema
\* order, each holding the cells its column accumulated since the previous
\* take_batch; right after it every column has zero rows, the memory estimate
\* is zero, and the schema and the capacity hint are what they were.
C2_TakeBatch ==
    [][(Idle /\ lastop' = "take_batch") =>
          /\ Len(ret') = Len(schema)
          /\ \A i \in 1..Len(schema) :
                /\ ret'[i].type = BuilderType(schema[i])
                /\ ret'[i].data = builders[i].data
          /\ Len(builders') = Len(schema)
          /\ \A i \in 1..Len(schema) :
                /\ ColLen(builders'[i]) = 0
                /\ builders'[i].type = BuilderType(schema[i])
                /\ builders'[i].capacity = cap
          /\ mem_used' = 0
          /\ schema' = schema
          /\ cap' = cap]_vars

\* take_batch has just returned three arrays of unequal, non-zero lengths
\* from a Table whose estimate was not zero
C2_Witness ==
    /\ lastop = "take_batch"
    /\ Len(ret) = 3
    /\ ColLen(ret[1]) = 2
    /\ ColLen(ret[2]) = 1
    /\ \A i \in Cols : ColLen(builders[i]) = 0
    /\ mem_used = 0
    /\ cap = 2

\* C3: every batch handed to Writer::submit_batch has at least one row (in
\* every column); a Packer that got no push hands over no batch, and its
\* finish returns Ok with no row group received whenever the encoder thread
\* itself did not fail.
C3_NoEmptyBatch ==
    /\ \A k \in 1..Len(submitted) :
          /\ Len(submitted[k]) = Len(schema)
          /\ \A i \in 1..Len(submitted[k]) : ColLen(submitted[k][i]) >= 1
    /\ pc = "send" => ColLen(pending[1]) >= 1
    /\ npush = 0 => submitted = <<>> /\ chan = <<>> /\ received = <<>>
    /\ (npush = 0 /\ lastop = "finish" /\ pc \in {"done", "panicked"}) =>
          \/ result = "Ok" /\ task = "ok" /\ received = <<>>
          \/ result = "ThreadFailure" /\ task = "err"
          \/ result = "Panic" /\ task = "panicked"

\* finish has returned Ok on a Packer that never got a push
C3_Witness ==
    /\ npush = 0
    /\ lastop = "finish"
    /\ pc = "done"
    /\ result = "Ok"
    /\ flushed
    /\ received = <<>>

\* the step is the driver's and not the encoder thread's
DriverStep == <<task, rx, chan, received>>' = <<task, rx, chan, received>>

\* a consider_flushing call is made on a consistent Table
ConsiderCall ==
    /\ Idle
    /\ DriverStep
    /\ lastop' = "consider_flushing"
    /\ check_consistent(builders)

\* the Table after take_batch: no rows, no estimated memory
TableReset ==
    /\ \A i \in 1..Len(builders') : ColLen(builders'[i]) = 0
    /\ mem_used' = 0

\* C4: with at most 100,000 rows in a consistent Table that holds a row, a
\* consider_flushing call made with the estimate at or below 512 MiB hands no
\* batch to the Writer, and one made with the estimate above 512 MiB hands
\* over exactly one batch (the Table's rows) and resets the Table, so that a
\* repeated call would not flush.
C4_FlushOnMemory ==
    [][(ConsiderCall /\ ColLen(builders[1]) >= 1 /\ ColLen(builders[1]) <= 100000) =>
          /\ mem_used <= 536870912 => submitted' = submitted
          /\ mem_used > 536870912 =>
                /\ submitted' = Append(submitted, BatchOf(builders))
                /\ TableReset
                /\ ~(mem_used' > 536870912 \/ ColLen(builders'[1]) > 100000)]_vars

\* C5: on a consistent Table consider_flushing goes into flush exactly when
\* the estimate is above 512 MiB or there are more than 100,000 rows; when it
\* does not, it returns Ok, the Table is unchanged and nothing is handed to
\* the Writer; when it does and the Table has rows, flush hands the Table's
\* rows over as one batch and resets the Table (unless finish_bulk_push
\* panics inside flush).
C5_FlushIff ==
    [][ConsiderCall =>
          LET exceeded == mem_used > 536870912 \/ ColLen(builders[1]) > 100000
          IN  /\ flushed' = exceeded
              /\ ~exceeded =>
                    /\ result' = "Ok"
                    /\ pc' = "idle"
                    /\ builders' = builders
                    /\ mem_used' = mem_used
                    /\ submitted' = submitted
                    /\ chan' = chan
                    /\ pending' = pending
              /\ (exceeded /\ ColLen(builders[1]) >= 1 /\ result' # "Panic") =>
                    /\ submitted' = Append(submitted, BatchOf(builders))
                    /\ TableReset]_vars

\* consider_flushing has returned without a flush from a Table whose
\* estimate is exactly 512 MiB
C5_Witness ==
    /\ lastop = "consider_flushing"
    /\ result = "Ok"
    /\ ~flushed
    /\ mem_used = 536870912
    /\ ColLen(builders[1]) = 1
    /\ check_consistent(builders)

C7_SubmissionOrder == IsPrefix(received, submitted)

\* the encoder thread has received two different batches
C7_Witness ==
    /\ Len(received) = 2
    /\ received[1] # received[2]
    /\ received = submitted

\* C8: when finish has returned Ok, the encoder thread of the sink has
\* received every batch for which submit_batch returned Ok, once each and in
\* order, and nothing else.
C8_CompleteDelivery ==
    (lastop = "finish" /\ pc = "done" /\ result = "Ok") =>
        /\ received = accepted
        /\ accepted = submitted
        /\ chan = <<>>

\* finish returned Ok after two batches were accepted
C8_Witness ==
    /\ lastop = "finish"
    /\ pc = "done"
    /\ result = "Ok"
    /\ Len(accepted) = 2
    /\ accepted[1] # accepted[2]

\* the send of submit_batch fails: the receiver is gone and the driver leaves the send
SendFails == pc = "send" /\ rx = "dropped" /\ pc' # "send"

\* a Packer call on a Writer whose thread handle is gone hands a batch to
\* submit_batch or reaches Writer::finish
LaterCall ==
    /\ Idle
    /\ DriverStep
    /\ thread = "None"
    /\ lastop' \in {"consider_flushing", "finish"}
    /\ submitted' # submitted \/ (lastop' = "finish" /\ rows(builders) = 0)

\* the calls after a failed send return an error and do not block
LaterCallsFail ==
    [][LaterCall => (result' = "AlreadyFailed" /\ pc' \in {"idle", "done"})]_vars

\* C9 as stated: when the send of submit_batch fails, submit_batch joins the
\* thread and returns the thread's error; it does not return Ok for the batch,
\* and every later submit_batch or finish returns an error without blocking.
C9_SendFailureReturnsError ==
    /\ [][SendFails =>
             /\ outcome' = task
             /\ thread' = "None"
             /\ result' = "ThreadFailure"
             /\ pc' \in {"idle", "done"}
             /\ accepted' = accepted]_vars
    /\ LaterCallsFail

\* C9 amended: when the send of submit_batch fails, submit_batch joins the
\* thread; it returns the thread's error when the thread returned one and
\* panics ("thread panic") when the thread panicked; it does not return Ok
\* for the batch, and every later submit_batch or finish on the Writer
\* returns an error without blocking.
C9_SendFailureSurfaces ==
    /\ [][SendFails =>
             /\ outcome' = task
             /\ task \in {"err", "panicked"}
             /\ thread' = "None"
             /\ tx' = "dropped"
             /\ task = "err" => (result' = "ThreadFailure" /\ pc' \in {"idle", "done"})
             /\ task = "panicked" => (result' = "Panic" /\ pc' = "panicked")
             /\ accepted' = accepted
             /\ sent' = sent]_vars
    /\ [](accepted = sent)
    /\ LaterCallsFail

\* consider_flushing returned the encoder thread's error from a failed send,
\* and the next flush was refused with "already failed"
C9_Witness ==
    /\ outcome = "err"
    /\ thread = "None"
    /\ lastop = "consider_flushing"
    /\ result = "AlreadyFailed"
    /\ Len(submitted) = 2
    /\ accepted = <<>>

\* C10: Writer::finish closes the sender and joins the encoder thread; the
\* join returns Ok only if the thread consumed every batch that was sent and
\* returned Ok, returns the thread's error if the thread returned one, and
\* re-raises the panic if the thread panicked; finish never returns Ok once
\* the thread has failed, whenever that happened.
C10_FinishSurfacesOutcome ==
    /\ [](pc = "join" => (tx = "dropped" /\ thread = "None" /\ lastop = "finish"))
    /\ [][(pc = "join" /\ pc' # "join") =>
             /\ task # "running"
             /\ outcome' = task
             /\ task = "ok" => (result' = "Ok" /\ pc' = "done")
             /\ task = "err" => (result' = "ThreadFailure" /\ pc' = "done")
             /\ task = "panicked" => (result' = "Panic" /\ pc' = "panicked")]_vars
    /\ []((lastop = "finish" /\ pc \in {"done", "panicked"}) =>
             /\ result = "Ok" =>
                   /\ pc = "done"
                   /\ outcome = "ok"
                   /\ task = "ok"
                   /\ chan = <<>>
                   /\ received = sent
             /\ task \in {"err", "panicked"} => result # "Ok")

\* finish returned the error of an encoder thread that had already taken a
\* batch when it failed
C10_Witness ==
    /\ lastop = "finish"
    /\ pc = "done"
    /\ result = "ThreadFailure"
    /\ outcome = "err"
    /\ Len(received) = 1
    /\ accepted = submitted
    /\ flushed

\* C11: whenever transform has returned to its caller, by any path, the
\* encoder thread it spawned has exited and has been joined, and the driver
\* got its outcome: no thread is left running or un-joined.
C11_NoThreadAbandoned ==
    (TransformReturned /\ task # "unspawned") =>
        /\ thread = "None"
        /\ task # "running"
        /\ outcome = task

\* a transform of a one-row-group source with an ErrorOut on "x", whose row
\* group rg_filter has included
AbortRun ==
    /\ tpc # "none"
    /\ Len(row_groups) = 1
    /\ \E k \in 1..Len(ops) : ops[k].action = "ErrorOut" /\ ops[k].input = "x"
    /\ filter_calls = <<[rg |-> 0, decision |-> "Include"]>>

\* C12: a transform with an ErrorOut op on "x" over a one-row-group source
\* whose row group is included fails with UserAbort with no encoder thread
\* ever spawned, no batch ever submitted and the output never finalized.
C12_AbortBeforeSink ==
    AbortRun =>
        /\ task = "unspawned"
        /\ submitted = <<>>
        /\ task # "ok"
        /\ TransformReturned => result = "UserAbort"

\* no Kind corresponds to the DataType
NoKind(arrow) == \A kind \in Kinds : to_arrow(kind) # arrow

\* a Copy names a column the source does not have, or a field of the output
\* (the input field of a Copy, a declared field of a Split) has no Kind
BadDerivation ==
    /\ tpc # "none"
    /\ \E k \in 1..Len(ops) :
          \/ /\ ops[k].action = "Copy"
             /\ \/ find_field(in_schema, ops[k].input) = 0
                \/ NoKind(in_schema[find_field(in_schema, ops[k].input)].data_type)
          \/ /\ ops[k].action = "Split"
             /\ \E j \in 1..Len(ops[k].output) : NoKind(ops[k].output[j].data_type)

\* C13: when a Copy names a missing input column or a field of the derived
\* output schema has a DataType with no Kind, transform fails in the schema
\* derivation: no encoder thread is spawned, no Table is made, rg_filter is
\* never called and no Op is run on any row group.
C13_SchemaBeforeOutput ==
    BadDerivation =>
        /\ task = "unspawned"
        /\ thread = "None"
        /\ builders = <<>>
        /\ filter_calls = <<>>
        /\ ops_run = <<>>
        /\ submitted = <<>>
        /\ tpc \in {"schema", "ret"}
        /\ tpc = "ret" => result \in {"FieldMissing", "ExternalTypeUnsupported"}

\* transform has failed on a declared Split field of a type with no Kind
C13_Witness ==
    /\ BadDerivation
    /\ tpc = "ret"
    /\ result = "ExternalTypeUnsupported"
    /\ \E k \in 1..Len(ops) : ops[k].action = "Split"
    /\ task = "unspawned"

\* the rows of the row groups rg_filter has included so far
IncludedRows ==
    SumSeq([i \in 1..Len(filter_calls) |->
               IF filter_calls[i].decision = "Include" THEN row_groups[i] ELSE 0])

\* the rows of the batches in a sequence of batches
BatchRows(bs) == SumSeq([i \in 1..Len(bs) |-> ColLen(bs[i][1])])

\* rg_filter was called once per row group, in order, and never after a Break;
\* every Op that ran belongs to a row group that was included
LoopOrder ==
    /\ \A i \in 1..Len(filter_calls) : filter_calls[i].rg = i - 1
    /\ \A i \in 1..(Len(filter_calls) - 1) : filter_calls[i].decision # "Break"
    /\ \A k \in 1..Len(ops_run) :
          /\ ops_run[k].rg + 1 <= Len(filter_calls)
          /\ filter_calls[ops_run[k].rg + 1].decision = "Include"

\* a finish that returned Ok left no row in the Table: the encoder thread got
\* the rows of every included row group, in batches of whole rows
FinishSubmitsAll ==
    (tpc # "none" /\ lastop = "finish" /\ pc = "done" /\ result = "Ok") =>
        /\ \A i \in 1..Len(builders) : ColLen(builders[i]) = 0
        /\ received = submitted
        /\ \A i \in 1..Len(submitted) : record_batch_ok(submitted[i])
        /\ BatchRows(submitted) = IncludedRows

\* C14: rg_filter is called once per row group in arrival order; a Skip or a
\* Break runs no Op and leaves the Table as it was; after a Break rg_filter
\* is not called again, no further Op runs, and the one thing transform does
\* is Packer::finish, once, which submits every row of the row groups
\* included before, in batches of whole rows.
C14_RowGroupLoop ==
    /\ [](LoopOrder /\ FinishSubmitsAll /\ (lastop = "finish" => pc # "idle"))
    /\ [][/\ (/\ Len(filter_calls') > Len(filter_calls)
               /\ filter_calls'[Len(filter_calls')].decision \in {"Skip", "Break"}) =>
                   /\ <<builders, mem_used, submitted, ops_run>>'
                         = <<builders, mem_used, submitted, ops_run>>
                   /\ tpc' \in {"loop", "break"}
                   /\ (tpc' = "break") =
                         (filter_calls'[Len(filter_calls')].decision = "Break")
          /\ (tpc \in {"loop", "break"} /\ builders' # builders) => lastop' = "finish"
          /\ (tpc = "break" /\ pc = "idle" /\ DriverStep) =>
                (lastop' = "finish" /\ filter_calls' = filter_calls /\ ops_run' = ops_run)
          /\ lastop = "finish" =>
                (lastop' = "finish" /\ filter_calls' = filter_calls /\ ops_run' = ops_run)]_vars

\* a Break after an included row group: finish has returned Ok and the
\* encoder thread has the rows of the included row group
C14_Witness ==
    /\ Len(filter_calls) = 2
    /\ filter_calls[1].decision = "Include"
    /\ filter_calls[2].decision = "Break"
    /\ Len(row_groups) = 2
    /\ lastop = "finish"
    /\ pc = "done"
    /\ result = "Ok"
    /\ BatchRows(received) = row_groups[1]

\* the push was refused as a type mismatch and changed nothing
Rejected ==
    /\ result' = "TypeMismatch"
    /\ builders' = builders
    /\ mem_used' = mem_used

\* C15: push_str, push_bool, push_fsb and push_primitive::<T>, with a value
\* or with None, return TypeMismatch when the column's builder is not the one
\* the call is for, and a push that fails leaves every column and the memory
\* estimate as they were.
C15_TypedPushChecked ==
    [][/\ \A i \in Cols, val \in {None, Some(3)} :
              (PushStr(i, val, 1) /\ builders[i].type # "Utf8") => Rejected
       /\ \A i \in Cols, val \in {None, Some(1)} :
              (PushBool(i, val, 1) /\ builders[i].type # "Boolean") => Rejected
       /\ \A i \in Cols, val \in {None, Some(9)}, sz \in {4, UuidSize} :
              (PushFsb(i, val, sz, 1) /\ builders[i].type # "FixedSizeBinary") => Rejected
       /\ \A i \in Cols, T \in {"u8", "i32", "i64", "f64"}, val \in {None, Some(7)} :
              (PushPrimitive(T, i, val, 1) /\ builders[i].type # T) => Rejected
       /\ (npush' = npush + 1 /\ result' # "Ok") =>
              (builders' = builders /\ mem_used' = mem_used)]_vars

\* every field of the output transform derives is there and has a Kind
DerivableOutput ==
    /\ tpc \notin {"none", "schema"}
    /\ \A i \in 1..Len(WriterFields) :
          WriterFields[i].ok /\ ~NoKind(WriterFields[i].data_type)

\* C16: from_arrow(to_arrow(k)) is k for each of the eight Kinds, and
\* from_arrow fails for every DataType that is not to_arrow of a Kind; so a
\* transform whose output fields all have a Kind gets through the schema
\* derivation, with a Table whose Kinds map back to the fields' DataTypes.
C16_KindBijection ==
    /\ \A kind \in Kinds : from_arrow(to_arrow(kind)) = kind
    /\ \A arrow \in DataTypes : NoKind(arrow) => from_arrow(arrow) = "unsupported"
    /\ DerivableOutput =>
          /\ task # "unspawned"
          /\ Len(schema) = Len(WriterFields)
          /\ \A i \in 1..Len(schema) : to_arrow(schema[i]) = WriterFields[i].data_type

RECURSIVE ColumnOf(_, _)
\* column i of the batches bs, one after the other
ColumnOf(bs, i) ==
    IF bs = <<>> THEN <<>> ELSE Head(bs)[i].data \o ColumnOf(Tail(bs), i)

\* the cells of column i: those submitted, then those still in the Table
AllRows(i) == ColumnOf(submitted, i) \o builders[i].data

\* C17: through pushes, consider_flushing calls and finish, the submitted
\* batches in submission order followed by the Table's rows are, column by
\* column, the cells pushed so far: only a push changes that sequence, by
\* appending its cells, and no flush loses, repeats or reorders a cell; after
\* a finish of a consistent Table that returned Ok the Table is empty and the
\* encoder thread has received every submitted batch.
C17_RowConservation ==
    /\ [][\A i \in Cols :
             \/ AllRows(i)' = AllRows(i)
             \/ /\ npush' = npush + 1
                /\ lastop' \in {"push_null", "push_str", "push_primitive"}
                /\ Len(AllRows(i)') = Len(AllRows(i)) + 1
                /\ SubSeq(AllRows(i)', 1, Len(AllRows(i))) = AllRows(i)
                /\ submitted' = submitted]_vars
    /\ []((lastop = "finish" /\ pc = "done" /\ result = "Ok"
               /\ check_consistent(builders)) =>
             /\ \A i \in Cols : builders[i].data = <<>>
             /\ accepted = submitted
             /\ received = submitted)

\* finish returned Ok after one flush by consider_flushing and one by finish
C17_Witness ==
    /\ lastop = "finish"
    /\ pc = "done"
    /\ result = "Ok"
    /\ Len(submitted) = 2
    /\ rows(submitted[1]) >= 1
    /\ rows(submitted[2]) >= 1
    /\ received = submitted
    /\ \A i \in Cols : builders[i].data = <<>>

\* validity-bitmap bytes + value-buffer bytes (+ offsets-buffer bytes for a
\* String) of one column, each buffer measured as mem.rs measures it
ColumnBytes(col) ==
    ValidityMemUsage(col)
      + (CASE col.type = "Utf8" -> ValueBytes(col) + (ColLen(col) + 1) * SizeOf("i32")
           [] col.type = "Boolean" -> BitmapMemUsage(ColLen(col))
           [] col.type = "FixedSizeBinary" -> FixedSizeBinaryMemUsage(col)
           [] OTHER -> ColLen(col) * SizeOf(col.type))

\* C18: whatever Kinds the schema has, finish_bulk_push on a consistent Table
\* returns Ok and sets the memory estimate to the sum over the columns of
\* validity-bitmap bytes + value-buffer bytes (+ offsets-buffer bytes for a
\* String), whatever the running estimate was.
C18_ExactMemory ==
    [][(Idle /\ lastop' = "finish_bulk_push" /\ check_consistent(builders)) =>
          /\ result' = "Ok"
          /\ mem_used' = SumSeq([i \in 1..Len(builders) |-> ColumnBytes(builders[i])])]_vars

\* C19: the encoder thread finalizes its sink and returns Ok only once the
\* sender is closed and it has taken every batch that was sent; while the
\* sender is open the thread is running or has exited with a failure, and
\* has never finalized.
C19_CloseIsOnlySignal ==
    /\ [](task = "ok" => (tx = "dropped" /\ received = sent))
    /\ [](tx = "open" => task \in {"running", "err", "panicked"})
    /\ [][(task = "running" /\ task' = "ok") =>
             /\ tx = "dropped"
             /\ chan = <<>>
             /\ received = sent
             /\ received' = received]_vars

\* the thread finalized after taking two batches, the sender being closed
C19_Witness ==
    /\ task = "ok"
    /\ tx = "dropped"
    /\ Len(received) = 2
    /\ received = sent

\* C20: under a fairly scheduled encoder thread, a submit_batch blocked in
\* its send returns, with a slot found or with the send failed, and a finish,
\* blocked in the send of its flush or in the join, returns: the driver is
\* never blocked forever, also when the thread fails while the driver waits
\* on a full channel.
C20_NoDeadlock ==
    /\ (pc = "send") ~> (pc # "send")
    /\ (pc = "join") ~> (pc \in {"done", "panicked"})
    /\ (caller = "finish") ~> (pc \in {"done", "panicked"})

\* the second submit_batch waited on the full channel, the thread failed
\* without taking the first batch, and the call returned the failure
C20_Witness ==
    /\ pc = "idle"
    /\ lastop = "consider_flushing"
    /\ result = "ThreadFailure"
    /\ Len(submitted) = 2
    /\ Len(sent) = 1
    /\ received = <<>>

\* the index slices get_many is asked for: one or two columns, in any order
ViewRequests ==
    {<<i>> : i \in 1..MaxCols} \cup {<<i, j>> : i, j \in 1..MaxCols}

\* C21: get_many(indices) returns one view per requested index, in the order
\* requested, and the closure of every Split that was run got a slice whose
\* i-th element is the Table column named by the i-th declared output field,
\* one element per declared field.
C21_SplitViews ==
    /\ \A items \in ViewRequests : get_many(items) = items
    /\ \A k \in 1..Len(ops_run) :
          ops_run[k].views # <<>> =>
              ops_run[k].views = split_fields(ops[ops_run[k].op])

\* the driver calls finish_bulk_push, consider_flushing or Packer::finish on
\* a Table whose columns have diverged in length
DivergedCall ==
    /\ Idle
    /\ DriverStep
    /\ ~check_consistent(builders)
    /\ lastop' \in {"finish_bulk_push", "consider_flushing", "finish"}

\* C22: on a Table whose columns have diverged in length, finish_bulk_push,
\* consider_flushing and Packer::finish (each through check_consistent)
\* return SchemaViolation, leave the columns and the memory estimate as they
\* were, and take no batch from the Table and submit none.
C22_DivergedRejected ==
    /\ [][DivergedCall =>
             /\ result' = "SchemaViolation"
             /\ builders' = builders
             /\ mem_used' = mem_used
             /\ submitted' = submitted
             /\ chan' = chan]_vars
    /\ []((lastop = "finish" /\ pc = "done" /\ ~check_consistent(builders)) =>
             result = "SchemaViolation")

\* the Kind combinations of input column and output column a Copy supports
CopyHandled(kin, kout) ==
    /\ kin = kout
    /\ kin \in {"String", "I64", "I32", "Bool", "F64", "TimestampSecsZ"}

\* the output column of the current Copy and the Kind of its input column
CopyColumn == find_field(WriterFields, ops[opi].input)

CopyInputKind ==
    from_arrow(in_schema[find_field(in_schema, ops[opi].input)].data_type)

\* C23: a Copy on an included row group whose input column was read appends
\* the cells of the input array, nulls included and in order, to the output
\* column of the same name, which grows by the row count of the row group,
\* and touches no other column, when the Kind combination is a supported
\* one; otherwise it fails with TypeMismatch and appends nothing.
C23_CopyVerbatim ==
    [][\A arr \in CurrentArrays :
          (/\ RunOp(TRUE, "ok", arr)
           /\ ops[opi].action = "Copy"
           /\ find_field(in_schema, ops[opi].input) # 0)
          => IF CopyHandled(CopyInputKind, schema[CopyColumn])
             THEN /\ result' = "Ok"
                  /\ builders'[CopyColumn].data = builders[CopyColumn].data \o arr
                  /\ ColLen(builders'[CopyColumn]) =
                        ColLen(builders[CopyColumn]) + row_groups[next_rg]
                  /\ \A i \in 1..Len(builders) :
                        i # CopyColumn => builders'[i] = builders[i]
             ELSE /\ result' = "TypeMismatch"
                  /\ builders' = builders]_vars

\* a push call that returned Ok
SuccessfulPush ==
    /\ Idle
    /\ npush' = npush + 1
    /\ result' = "Ok"

\* finish_bulk_push has a total to compute: no builder of the Table makes
\* VarArray::mem_usage stop on its debug assertion
TotalDefined ==
    build = "release" \/ \A i \in 1..Len(builders) : MemUsageKnown(builders[i])

\* the cells held by the Boolean columns
BoolCells(bs) ==
    SumSeq([i \in 1..Len(bs) |-> IF bs[i].type = "Boolean" THEN ColLen(bs[i]) ELSE 0])

\* the push was push_fsb(i, None): the column it changed ends in a null
FsbNone ==
    /\ lastop' = "push_fsb"
    /\ \E i \in 1..Len(builders) :
          /\ builders'[i] # builders[i]
          /\ builders'[i].data[Len(builders'[i].data)].null

\* C24 as stated: the running counter is an underestimate, i.e. a successful
\* push on a Table whose counter does not exceed the exact total leaves a
\* counter that does not exceed the exact total of the new contents, and
\* every successful push raises the counter by at least 1.
C24_Underestimate ==
    [][SuccessfulPush =>
          /\ (TotalDefined /\ mem_used <= ExactMem(builders)) =>
                mem_used' <= ExactMem(builders')
          /\ mem_used' >= mem_used + 1]_vars

\* C24: the running counter is a bounded approximation: a successful push on
\* a Table whose counter exceeds the exact total by no more than the number
\* of cells in its Boolean columns leaves a counter within the same bound of
\* the new contents (on Boolean columns the counter grows by 1 per cell, the
\* exact total by at most 2 bits), and every successful push raises the
\* counter by at least 1, except push_fsb(None), which leaves it as it was.
C24_BoundedOvercount ==
    [][SuccessfulPush =>
          /\ (TotalDefined /\ mem_used <= ExactMem(builders) + BoolCells(builders)) =>
                mem_used' <= ExactMem(builders') + BoolCells(builders')
          /\ IF FsbNone
             THEN mem_used' = mem_used
             ELSE mem_used' >= mem_used + 1]_vars

\* successful pushes alone have brought the counter of a Table with Boolean
\* cells above the exact total of its contents
C24_Witness ==
    /\ lastop = "push_bool"
    /\ result = "Ok"
    /\ TotalDefined
    /\ BoolCells(builders) >= 2
    /\ mem_used > ExactMem(builders)
    /\ mem_used <= ExactMem(builders) + BoolCells(builders)

====
